---- MODULE Spec2Model ----
(***************************************************************************)
(* Model of merger.py: a folder of tiles <base>_<row>_<col>.<ext> is       *)
(* listed, grouped into rows (group_images), padded (pad_image), stacked   *)
(* (merge) and saved under a derived name (main).                          *)
(*                                                                         *)
(* File names are sequences of one-character strings so that every string  *)
(* operation of the source (replace, split, endswith, re.findall, int, the *)
(* natural sort) is computed on characters.  A raster is a record          *)
(* [height, width, px] whose px is a sequence of rows of pixels; pixel 0   *)
(* is the fill colour "black".                                             *)
(***************************************************************************)
EXTENDS Integers, Sequences, FiniteSets, TLC

(***************************************************************************)
(* Characters and strings                                                  *)
(***************************************************************************)
\* the characters that occur in the modelled names, in code point order
Alphabet ==
    << ".", "/", "0", "1", "2", "3", "4", "5", "6", "7", "8", "9",
       "E", "G", "J", "N", "P", "_", "a", "b", "d", "g", "j", "n", "p" >>

DigitChars == << "0", "1", "2", "3", "4", "5", "6", "7", "8", "9" >>

Radix == 10

Ord(c) == CHOOSE k \in 1..Len(Alphabet) : Alphabet[k] = c

IsDigit(c) == \E k \in 1..Radix : DigitChars[k] = c

DigitVal(c) == (CHOOSE k \in 1..Radix : DigitChars[k] = c) - 1

Max(a, b) == IF a >= b THEN a ELSE b

\* s[a..b], empty when b < a
Sub(s, a, b) == IF b < a THEN << >> ELSE SubSeq(s, a, b)

\* str(n) for n >= 0
RECURSIVE StrOfNat(_)
StrOfNat(n) ==
    IF n < Radix THEN << DigitChars[n + 1] >>
    ELSE StrOfNat(n \div Radix) \o << DigitChars[(n % Radix) + 1] >>

AllDigits(s) == Len(s) > 0 /\ \A k \in 1..Len(s) : IsDigit(s[k])

\* value of a run of decimal digits
RECURSIVE DigitsVal(_)
DigitsVal(s) ==
    IF s = << >> THEN 0
    ELSE DigitsVal(Sub(s, 1, Len(s) - 1)) * Radix + DigitVal(s[Len(s)])

\* int(s): the value, or -1 where int() raises ValueError
ParseInt(s) == IF AllDigits(s) THEN DigitsVal(s) ELSE -1

\* s.endswith(suffix)
EndsWith(s, suffix) ==
    /\ Len(suffix) <= Len(s)
    /\ Sub(s, Len(s) - Len(suffix) + 1, Len(s)) = suffix

\* does old occur in s at position k
OccursAt(s, old, k) ==
    /\ k + Len(old) - 1 <= Len(s)
    /\ Sub(s, k, k + Len(old) - 1) = old

\* s.replace(old, ""): every non-overlapping occurrence, left to right
RECURSIVE RemoveAll(_, _)
RemoveAll(s, old) ==
    IF s = << >> \/ old = << >> THEN s
    ELSE IF OccursAt(s, old, 1)
         THEN RemoveAll(Sub(s, Len(old) + 1, Len(s)), old)
         ELSE << s[1] >> \o RemoveAll(Tail(s), old)

\* s.split(sep) for a one-character sep: the fields, at least one
RECURSIVE SplitOn(_, _)
SplitOn(s, sep) ==
    IF \A k \in 1..Len(s) : s[k] # sep THEN << s >>
    ELSE LET k == CHOOSE j \in 1..Len(s) :
                      s[j] = sep /\ \A m \in 1..(j - 1) : s[m] # sep
         IN  << Sub(s, 1, k - 1) >> \o SplitOn(Sub(s, k + 1, Len(s)), sep)

\* os.path.basename
Basename(path) ==
    LET parts == SplitOn(path, "/") IN parts[Len(parts)]

\* os.path.join(dir, name)
PathJoin(dir, name) == dir \o << "/" >> \o name

\* end of the maximal digit run of s that starts at k (k - 1 if none)
RECURSIVE DigitRunEnd(_, _)
DigitRunEnd(s, k) ==
    IF k <= Len(s) /\ IsDigit(s[k]) THEN DigitRunEnd(s, k + 1) ELSE k - 1

(***************************************************************************)
(* re.findall(f"_[0-9]+_[0-9]+.{image_ext}", s)                            *)
(***************************************************************************)
\* Index of the last character of the match that starts at k, 0 if none.
\* Both digit runs are greedy; the first must be followed by "_", so it is
\* maximal; the second gives characters back until "." (any character)
\* followed by ext matches.
MatchEnd(s, k, ext) ==
    IF ~(k <= Len(s) /\ s[k] = "_") THEN 0
    ELSE LET e1 == DigitRunEnd(s, k + 1) IN
         IF ~(e1 >= k + 1 /\ e1 + 1 <= Len(s) /\ s[e1 + 1] = "_") THEN 0
         ELSE LET e2 == DigitRunEnd(s, e1 + 2)
                  ok == { m \in (e1 + 2)..e2 :
                            m + 1 <= Len(s) /\ OccursAt(s, ext, m + 2) }
              IN  IF ok = {} THEN 0
                  ELSE (CHOOSE m \in ok : \A n \in ok : n <= m) + 1 + Len(ext)

\* the non-overlapping matches, scanning from position k
RECURSIVE FindAll(_, _, _)
FindAll(s, k, ext) ==
    IF k > Len(s) THEN << >>
    ELSE LET e == MatchEnd(s, k, ext) IN
         IF e = 0 THEN FindAll(s, k + 1, ext)
         ELSE << Sub(s, k, e) >> \o FindAll(s, e + 1, ext)

(***************************************************************************)
(* natsort.natsorted (default algorithm: unsigned integers)                *)
(***************************************************************************)
\* end of the maximal run of non-digits of s that starts at k
RECURSIVE TextRunEnd(_, _)
TextRunEnd(s, k) ==
    IF k <= Len(s) /\ ~IsDigit(s[k]) THEN TextRunEnd(s, k + 1) ELSE k - 1

\* the chunks of s from position k: digit runs as numbers, the rest as text
RECURSIVE Chunks(_, _)
Chunks(s, k) ==
    IF k > Len(s) THEN << >>
    ELSE IF IsDigit(s[k])
         THEN LET e == DigitRunEnd(s, k) IN
              << [num |-> TRUE, txt |-> << >>, val |-> DigitsVal(Sub(s, k, e))] >>
                  \o Chunks(s, e + 1)
         ELSE LET e == TextRunEnd(s, k) IN
              << [num |-> FALSE, txt |-> Sub(s, k, e), val |-> 0] >>
                  \o Chunks(s, e + 1)

\* the sort key: text and numbers alternate, text first ("" is put in front
\* of a leading number)
NatKey(s) ==
    IF s # << >> /\ IsDigit(s[1])
    THEN << [num |-> FALSE, txt |-> << >>, val |-> 0] >> \o Chunks(s, 1)
    ELSE Chunks(s, 1)

\* str < str of Python: by code point, a proper prefix is smaller
RECURSIVE StrLess(_, _)
StrLess(a, b) ==
    IF b = << >> THEN FALSE
    ELSE IF a = << >> THEN TRUE
    ELSE IF a[1] # b[1] THEN Ord(a[1]) < Ord(b[1])
    ELSE StrLess(Tail(a), Tail(b))

ChunkLess(x, y) ==
    IF x.num /\ y.num THEN x.val < y.val
    ELSE IF ~x.num /\ ~y.num THEN StrLess(x.txt, y.txt)
    ELSE FALSE

\* tuple < tuple of Python
RECURSIVE KeyLess(_, _)
KeyLess(a, b) ==
    IF b = << >> THEN FALSE
    ELSE IF a = << >> THEN TRUE
    ELSE IF a[1] # b[1] THEN ChunkLess(a[1], b[1])
    ELSE KeyLess(Tail(a), Tail(b))

\* the key of a plain sorted(): the whole string as one text chunk
PlainKey(s) == << [num |-> FALSE, txt |-> s, val |-> 0] >>

\* the key natsorted sorts by
SortKey(s) == NatKey(s)

\* x put into the sorted sequence of keyed items, after the items not greater
\* than it (the sort is stable)
InsertKeyed(sorted, x) ==
    LET before == { k \in 1..Len(sorted) : ~KeyLess(x.key, sorted[k].key) }
        n == Cardinality(before)
    IN  Sub(sorted, 1, n) \o << x >> \o Sub(sorted, n + 1, Len(sorted))

\* items[lo..hi] put one after the other into sorted (the index range is
\* halved to keep the evaluation shallow; the order of the insertions is
\* lo, lo + 1, ..., hi)
RECURSIVE SortRange(_, _, _, _)
SortRange(sorted, items, lo, hi) ==
    IF lo > hi THEN sorted
    ELSE IF lo = hi THEN InsertKeyed(sorted, items[lo])
    ELSE LET mid  == (lo + hi) \div 2
             left == SortRange(sorted, items, lo, mid)
         IN  IF Len(left) >= 0   \* the first half is evaluated first
             THEN SortRange(left, items, mid + 1, hi) ELSE left

natsorted(images) ==
    LET keyed  == [k \in 1..Len(images) |-> [key |-> SortKey(images[k]), item |-> images[k]]]
        sorted == SortRange(<< >>, keyed, 1, Len(images))
    IN  [k \in 1..Len(images) |-> sorted[k].item]

(***************************************************************************)
(* group_images                                                            *)
(***************************************************************************)
\* split("_")[-2] of the name with "." + ext removed; << >> marks IndexError
RowField(name, ext) ==
    LET fields == SplitOn(RemoveAll(name, << "." >> \o ext), "_")
    IN  IF Len(fields) < 2 THEN << >> ELSE fields[Len(fields) - 1]

\* int(coord_y), -1 where the source raises
CoordY(name, ext) == ParseInt(RowField(name, ext))

FirstLastY == 0

\* one pass of the loop body, lines 91-99; st = [ok, last_y, groups], ok is
\* FALSE once an exception was raised
GroupStep(st, image, ext) ==
    IF ~st.ok \/ ~EndsWith(image, ext) THEN st
    ELSE LET y == CoordY(image, ext)
             n == Len(st.groups)
         IN  IF y < 0 THEN [st EXCEPT !.ok = FALSE]
             ELSE IF y = st.last_y
             THEN [st EXCEPT !.groups[n] = Append(@, image)]
             ELSE [st EXCEPT !.groups = Append(@, << image >>), !.last_y = y]

\* the loop of line 90 over sorted[lo..hi], in order (the index range is
\* halved to keep the evaluation shallow)
RECURSIVE GroupRange(_, _, _, _, _)
GroupRange(st, sorted, lo, hi, ext) ==
    IF lo > hi THEN st
    ELSE IF lo = hi THEN GroupStep(st, sorted[lo], ext)
    ELSE LET mid  == (lo + hi) \div 2
             left == GroupRange(st, sorted, lo, mid, ext)
         IN  IF left.ok \in BOOLEAN   \* the first half is evaluated first
             THEN GroupRange(left, sorted, mid + 1, hi, ext) ELSE left

\* the groups with the empty ones left out
group_imagesNonEmpty(images, image_ext) ==
    LET sorted == natsorted(images)
        st == GroupRange([ok |-> TRUE, last_y |-> FirstLastY, groups |-> << << >> >>],
                         sorted, 1, Len(sorted), image_ext)
        nonEmpty(g) == g # << >>
    IN  [ok |-> st.ok, groups |-> SelectSeq(st.groups, nonEmpty)]

\* [ok |-> no exception, groups |-> grouped_images]
group_images(images, image_ext) ==
    LET sorted == natsorted(images)
        st == GroupRange([ok |-> TRUE, last_y |-> FirstLastY, groups |-> << << >> >>],
                         sorted, 1, Len(sorted), image_ext)
    IN  [ok |-> st.ok, groups |-> st.groups]

(***************************************************************************)
(* Rasters: PIL images and numpy arrays                                    *)
(***************************************************************************)
Black == 0

\* the image pasted into the corner of the enlarged image
expandAtOrigin(image, left, top, right, bottom) ==
    LET width  == left + image.width + right
        height == top + image.height + bottom
    IN  IF width < 0 \/ height < 0 THEN [ok |-> FALSE]
        ELSE [ok     |-> TRUE,
              height |-> height,
              width  |-> width,
              px     |-> [y \in 1..height |-> [x \in 1..width |->
                            IF y \in 1..image.height /\ x \in 1..image.width
                            THEN image.px[y][x]
                            ELSE Black]]]

\* ImageOps.expand(image, (left, top, right, bottom), fill="black"): a new
\* image of the enlarged size filled with black, the image pasted at
\* (left, top); Image.new raises ValueError for a negative size
expand(image, left, top, right, bottom) ==
    LET width  == left + image.width + right
        height == top + image.height + bottom
    IN  IF width < 0 \/ height < 0 THEN [ok |-> FALSE]
        ELSE [ok     |-> TRUE,
              height |-> height,
              width  |-> width,
              px     |-> [y \in 1..height |-> [x \in 1..width |->
                            IF (y - top) \in 1..image.height /\ (x - left) \in 1..image.width
                            THEN image.px[y - top][x - left]
                            ELSE Black]]]

\* the y-th rows of the arrays joined right to left
RECURSIVE RowCatReversed(_, _)
RowCatReversed(arrs, y) ==
    IF arrs = << >> THEN << >>
    ELSE RowCatReversed(Tail(arrs), y) \o arrs[1].px[y]

\* one row of np.hstack: the y-th rows of the arrays, left to right
RECURSIVE RowCat(_, _)
RowCat(arrs, y) ==
    IF arrs = << >> THEN << >> ELSE arrs[1].px[y] \o RowCat(Tail(arrs), y)

RECURSIVE SumWidth(_)
SumWidth(arrs) == IF arrs = << >> THEN 0 ELSE arrs[1].width + SumWidth(Tail(arrs))

RECURSIVE PxCat(_)
PxCat(arrs) == IF arrs = << >> THEN << >> ELSE arrs[1].px \o PxCat(Tail(arrs))

RECURSIVE SumHeight(_)
SumHeight(arrs) == IF arrs = << >> THEN 0 ELSE arrs[1].height + SumHeight(Tail(arrs))

\* np.hstack: ValueError for an empty list or unequal heights
hstackOk(arrs) ==
    /\ arrs # << >>
    /\ \A k \in 1..Len(arrs) : arrs[k].height = arrs[1].height

hstack(arrs) ==
    [height |-> arrs[1].height,
     width  |-> SumWidth(arrs),
     px     |-> [y \in 1..arrs[1].height |-> RowCat(arrs, y)]]

\* a stack that accepts rows of any width
vstackOkAnyWidth(arrs) == arrs # << >>

\* np.vstack: ValueError for an empty list or unequal widths
vstackOk(arrs) ==
    /\ arrs # << >>
    /\ \A k \in 1..Len(arrs) : arrs[k].width = arrs[1].width

vstack(arrs) ==
    [height |-> SumHeight(arrs),
     width  |-> arrs[1].width,
     px     |-> PxCat(arrs)]

(***************************************************************************)
(* pad_image and the first loop of merge                                   *)
(***************************************************************************)
\* Image.open(path): the file's raster with its name and PIL format
ImageOpen(files, path) ==
    [filename |-> path,
     format   |-> files[path].format,
     width    |-> files[path].width,
     height   |-> files[path].height,
     px       |-> files[path].px]

\* int(image_name_no_ext.split("_")[-2]) of an opened image, -1 where it raises
ImageCoordY(image) == CoordY(Basename(image.filename), image.format)

\* the odd pixel put on the left / top
PadBeforeUp(padding) == (padding + 1) \div 2

\* lines 114 and 116: the padding on the top / left
PadBefore(padding) == padding \div 2

\* one pixel too many on the bottom / right
PadAfterOneMore(padding) == padding - PadBefore(padding) + 1

\* lines 115 and 117: the padding on the bottom / right
PadAfter(padding) == padding - PadBefore(padding)

\* pad_image; [ok |-> FALSE] where the source raises
pad_image(image, heights, widths) ==
    LET coord_y == ImageCoordY(image) IN
    IF coord_y < 0 \/ coord_y >= Len(heights) \/ coord_y >= Len(widths)
    THEN [ok |-> FALSE]
    ELSE LET target_height  == heights[coord_y + 1]
             target_width   == widths[coord_y + 1]
             padding_height == target_height - image.height
             padding_width  == target_width - image.width
             pad_top    == PadBefore(padding_height)
             pad_bottom == PadAfter(padding_height)
             pad_left   == PadBefore(padding_width)
             pad_right  == PadAfter(padding_width)
             out == expand(image, pad_left, pad_top, pad_right, pad_bottom)
         IN  IF ~out.ok THEN [ok |-> FALSE]
             ELSE [ok |-> TRUE, filename |-> image.filename,
                   height |-> out.height, width |-> out.width, px |-> out.px,
                   pad_left |-> pad_left, pad_top |-> pad_top,
                   pad_right |-> pad_right, pad_bottom |-> pad_bottom]

\* the tiles of all groups as (group index from 0, path), in loop order
RECURSIVE Flat(_, _)
Flat(groups, i) ==
    IF i > Len(groups) THEN << >>
    ELSE [k \in 1..Len(groups[i]) |-> [i |-> i - 1, path |-> groups[i][k]]]
            \o Flat(groups, i + 1)

\* lines 129-134 for one image of group i; t = [ok, heights, widths], ok is
\* FALSE once an exception was raised
ReconcileStep(t, files, item) ==
    IF ~t.ok THEN t
    ELSE LET image   == ImageOpen(files, item.path)
             coord_y == ImageCoordY(image)
         IN  IF coord_y < 0 \/ coord_y >= Len(t.heights) THEN [t EXCEPT !.ok = FALSE]
             ELSE [t EXCEPT !.heights[coord_y + 1] = Max(@, image.height),
                            !.widths[item.i + 1] = Max(@, image.width)]

\* the loops of lines 126-134 over items[lo..hi], in order
RECURSIVE ReconcileRange(_, _, _, _, _)
ReconcileRange(t, files, items, lo, hi) ==
    IF lo > hi THEN t
    ELSE IF lo = hi THEN ReconcileStep(t, files, items[lo])
    ELSE LET mid  == (lo + hi) \div 2
             left == ReconcileRange(t, files, items, lo, mid)
         IN  IF left.ok \in BOOLEAN   \* the first half is evaluated first
             THEN ReconcileRange(left, files, items, mid + 1, hi) ELSE left

\* lines 123-134: [ok, heights, widths]
Reconcile(files, groups) ==
    LET items == Flat(groups, 1) IN
    ReconcileRange([ok |-> TRUE,
                    heights |-> [k \in 1..Len(groups) |-> 0],
                    widths  |-> [k \in 1..Len(groups) |-> 0]],
                   files, items, 1, Len(items))

\* line 138 for one group
PadGroup(files, group, heights, widths) ==
    [k \in 1..Len(group) |-> pad_image(ImageOpen(files, group[k]), heights, widths)]

(***************************************************************************)
(* main: extension and output name                                         *)
(***************************************************************************)
ImageExtensions ==
    { << ".", "j", "p", "g" >>, << ".", "j", "p", "e", "g" >>, << ".", "t", "i", "f" >>,
      << ".", "b", "m", "p" >>, << ".", "p", "n", "g" >>, << ".", "g", "i", "f" >> }

check_image_file(image) == \E e \in ImageExtensions : EndsWith(image, e)

\* lines 151-155: the image files of the folder, with the folder's path
ImageFiles(dir, names) ==
    LET images == SelectSeq(names, check_image_file)
    IN  [k \in 1..Len(images) |-> PathJoin(dir, images[k])]

\* all_images[0].split(".")[-1]
ExtOf(path) == LET parts == SplitOn(path, ".") IN parts[Len(parts)]

\* what is taken out of the base name: every occurrence of the match
StripSuffix(name, suffix) == RemoveAll(name, suffix)

\* lines 157-159; [ok, name]
ImageName(path, ext) ==
    LET found == FindAll(path, 1, ext) IN
    IF found = << >> THEN [ok |-> FALSE, name |-> << >>]
    ELSE [ok |-> TRUE, name |-> StripSuffix(Basename(path), found[Len(found)])]

Merged == << "_", "m", "e", "r", "g", "e", "d", "." >>

\* the path of line 170
OutputPath(out, name, ext) == PathJoin(out, name \o Merged \o ext)

(***************************************************************************)
(* State                                                                   *)
(***************************************************************************)
VARIABLES
    entry,            \* "main": main() runs on a folder; "group_images": a caller
                      \* passes a list and an extension to group_images and the
                      \* result to merge
    given,            \* how the tile-set was made (never read by the actions)
    disk,             \* path -> [format, width, height, px], the image files
    listdir,          \* os.listdir(split_dir), in the order the system gives
    all_images,       \* the paths given to group_images
    image_ext,        \* main: line 156
    image_name,       \* main: lines 157-159
    grouped_images,   \* result of group_images
    max_heights,      \* merge: line 123
    max_widths,       \* merge: line 124
    row,              \* merge: i of the loop of line 136
    padded_images,    \* merge: the results of pad_image, one sequence per group
    horizontal_parts, \* merge: line 122
    full_image,       \* merge: line 143
    saved,            \* the path full_image was saved under
    pc                \* where the run stands

vars == << entry, given, disk, listdir, all_images, image_ext, image_name,
           grouped_images, max_heights, max_widths, row, padded_images,
           horizontal_parts, full_image, saved, pc >>

NoImage == [height |-> -1, width |-> -1, px |-> << >>]

Dir == << "d" >>

OutDir == << "o" >>

\* the leading results of pad_image that returned
RECURSIVE Returned(_)
Returned(results) ==
    IF results = << >> \/ ~results[1].ok THEN << >>
    ELSE << results[1] >> \o Returned(Tail(results))

(***************************************************************************)
(* Actions                                                                 *)
(***************************************************************************)
\* main, lines 151-159: list the folder, take the extension and the output
\* name from the first image; IndexError on an empty list or no match
Main ==
    /\ pc = "main"
    /\ LET images == ImageFiles(Dir, listdir) IN
       /\ all_images' = images
       /\ IF images = << >>
          THEN /\ pc' = "failed"
               /\ UNCHANGED << image_ext, image_name >>
          ELSE LET ext == ExtOf(images[1])
                   nm  == ImageName(images[1], ext)
               IN  /\ image_ext' = ext
                   /\ image_name' = nm.name
                   /\ pc' = IF nm.ok THEN "group" ELSE "failed"
    /\ UNCHANGED << entry, given, disk, listdir, grouped_images, max_heights,
                    max_widths, row, padded_images, horizontal_parts,
                    full_image, saved >>

\* group_images(all_images, image_ext), line 161
GroupImages ==
    /\ pc = "group"
    /\ LET g == group_images(all_images, image_ext) IN
       /\ grouped_images' = g.groups
       /\ pc' = IF g.ok THEN "merge" ELSE "failed"
    /\ UNCHANGED << entry, given, disk, listdir, all_images, image_ext, image_name,
                    max_heights, max_widths, row, padded_images,
                    horizontal_parts, full_image, saved >>

\* merge, lines 122-134: the two tables
MergeReconcile ==
    /\ pc = "merge"
    /\ LET t == Reconcile(disk, grouped_images) IN
       /\ max_heights' = t.heights
       /\ max_widths' = t.widths
       /\ pc' = IF t.ok THEN "pad" ELSE "failed"
    /\ UNCHANGED << entry, given, disk, listdir, all_images, image_ext, image_name,
                    grouped_images, row, padded_images, horizontal_parts,
                    full_image, saved >>

\* merge, lines 136-140 for group i = row: pad its tiles and stack them
MergeRow ==
    /\ pc = "pad"
    /\ row < Len(grouped_images)
    /\ LET results == PadGroup(disk, grouped_images[row + 1], max_heights, max_widths)
           padded  == Returned(results)
       IN  /\ padded_images' = Append(padded_images, padded)
           /\ IF Len(padded) = Len(results) /\ hstackOk(padded)
              THEN /\ horizontal_parts' = Append(horizontal_parts, hstack(padded))
                   /\ row' = row + 1
                   /\ pc' = IF row + 1 = Len(grouped_images) THEN "vstack" ELSE "pad"
              ELSE /\ pc' = "failed"
                   /\ UNCHANGED << horizontal_parts, row >>
    /\ UNCHANGED << entry, given, disk, listdir, all_images, image_ext, image_name,
                    grouped_images, max_heights, max_widths, full_image, saved >>

\* merge, lines 142-145: stack the row strips and return
MergeStack ==
    /\ pc = "vstack"
    /\ IF vstackOk(horizontal_parts)
       THEN /\ full_image' = vstack(horizontal_parts)
            /\ pc' = IF entry = "main" THEN "save" ELSE "returned"
       ELSE /\ pc' = "failed"
            /\ UNCHANGED full_image
    /\ UNCHANGED << entry, given, disk, listdir, all_images, image_ext, image_name,
                    grouped_images, max_heights, max_widths, row, padded_images,
                    horizontal_parts, saved >>

\* main, lines 164-170
Save ==
    /\ pc = "save"
    /\ saved' = OutputPath(OutDir, image_name, ExtOf(all_images[1]))
    /\ pc' = "saved"
    /\ UNCHANGED << entry, given, disk, listdir, all_images, image_ext, image_name,
                    grouped_images, max_heights, max_widths, row, padded_images,
                    horizontal_parts, full_image >>

Next ==
    \/ Main
    \/ GroupImages
    \/ MergeReconcile
    \/ MergeRow
    \/ MergeStack
    \/ Save

(***************************************************************************)
(* Tile-sets: the folders the runs start from                              *)
(***************************************************************************)
MaxRows == 3

MaxCols == 11

MaxW == 2

MaxH == 2

MaxRot == 1

PadRows == 2

PadCols == 2

MaxPad == 3

PadBase == 2

MaxStart == 1

NamesRows == 2

NamesCols == 2

Png == << "p", "n", "g" >>

Jpg == << "j", "p", "g" >>

Exts == { Png, Jpg }

\* the format PIL reports for a file of the extension
FormatOf(ext) == IF ext = Png THEN << "P", "N", "G" >> ELSE << "J", "P", "E", "G" >>

BaseA == << "a" >>

BaseB == << "b" >>

\* a base name that holds a tile suffix itself
BaseT == << "a", "_", "0", "_", "0", ".", "p", "n", "g" >>

Bases == { BaseA, BaseB, BaseT }

\* <base>_<r>_<c>.<ext>
TileName(base, r, c, ext) ==
    base \o << "_" >> \o StrOfNat(r) \o << "_" >> \o StrOfNat(c) \o << "." >> \o ext

\* pixel (y, x), counted from 0, of a source image totalW wide: all different
\* and none black
SourcePixel(y, x, totalW) == 1 + y * totalW + x

\* the w x h pixels of tile (r, c) cut from the source image at cells cw x ch
TilePx(r, c, w, h, cw, ch, cols) ==
    [y \in 1..h |-> [x \in 1..w |->
        SourcePixel(r * ch + y - 1, c * cw + x - 1, cols * cw)]]

Tile(base, r, c, ext, w, h, cw, ch, cols) ==
    [name |-> TileName(base, r, c, ext), ext |-> ext, width |-> w, height |-> h,
     px |-> TilePx(r, c, w, h, cw, ch, cols)]

\* the files of a sequence of tiles (their names differ)
DiskOf(tiles) ==
    [p \in { PathJoin(Dir, tiles[k].name) : k \in 1..Len(tiles) } |->
        LET t == tiles[CHOOSE k \in 1..Len(tiles) : PathJoin(Dir, tiles[k].name) = p]
        IN  [format |-> FormatOf(t.ext), width |-> t.width, height |-> t.height,
             px |-> t.px]]

\* a listing order: the sequence, reversed or not, then rotated by rot
Order(seq, rot, rev) ==
    LET n == Len(seq)
        a == IF rev THEN [k \in 1..n |-> seq[n + 1 - k]] ELSE seq
    IN  [k \in 1..n |-> a[((k - 1 + rot) % n) + 1]]

NamesOf(tiles) == [k \in 1..Len(tiles) |-> tiles[k].name]

\* the state at the start of main on a folder
StartMain(tiles, names, how) ==
    /\ entry = "main"
    /\ given = how
    /\ disk = DiskOf(tiles)
    /\ listdir = names
    /\ all_images = << >>
    /\ image_ext = << >>
    /\ image_name = << >>
    /\ grouped_images = << >>
    /\ max_heights = << >>
    /\ max_widths = << >>
    /\ row = 0
    /\ padded_images = << >>
    /\ horizontal_parts = << >>
    /\ full_image = NoImage
    /\ saved = << >>
    /\ pc = "main"

\* the state at a caller's group_images(paths, ext)
StartCall(tiles, names, ext, how) ==
    /\ entry = "group_images"
    /\ given = how
    /\ disk = DiskOf(tiles)
    /\ listdir = << >>
    /\ all_images = [k \in 1..Len(names) |-> PathJoin(Dir, names[k])]
    /\ image_ext = ext
    /\ image_name = << >>
    /\ grouped_images = << >>
    /\ max_heights = << >>
    /\ max_widths = << >>
    /\ row = 0
    /\ padded_images = << >>
    /\ horizontal_parts = << >>
    /\ full_image = NoImage
    /\ saved = << >>
    /\ pc = "group"

\* a complete rows x cols grid of base, row by row; size(r, c) = <<w, h>>
GridTiles(base, rows, cols, ext, size(_, _), cw, ch) ==
    [k \in 1..(rows * cols) |->
        LET r == (k - 1) \div cols
            c == (k - 1) % cols
        IN  Tile(base, r, c, ext, size(r, c)[1], size(r, c)[2], cw, ch, cols)]

\* a source image split into rows x cols tiles of one size w x h
InitGrid ==
    \E rows \in 1..MaxRows, cols \in 1..MaxCols, w \in 1..MaxW, h \in 1..MaxH,
       rot \in 0..MaxRot, rev \in BOOLEAN :
        /\ rot < rows * cols
        /\ LET size(r, c) == << w, h >>
               tiles == GridTiles(BaseA, rows, cols, Png, size, w, h)
           IN  StartMain(tiles, Order(NamesOf(tiles), rot, rev),
                         [kind |-> "grid", rows |-> rows, cols |-> cols, base |-> BaseA])

\* a complete grid in which tile (0, 0) and the other tiles differ in size:
\* the small ones are s x s, the big ones (s + dw) x (s + dh)
InitPad ==
    \E rows \in 1..PadRows, cols \in 1..PadCols, s \in 1..PadBase,
       dw \in 0..MaxPad, dh \in 0..MaxPad, firstBig \in BOOLEAN, rev \in BOOLEAN :
        LET size(r, c) == IF (r = 0 /\ c = 0) = firstBig
                          THEN << s + dw, s + dh >> ELSE << s, s >>
            tiles == GridTiles(BaseA, rows, cols, Png, size, s + dw, s + dh)
        IN  StartMain(tiles, Order(NamesOf(tiles), 0, rev),
                      [kind |-> "pad", rows |-> rows, cols |-> cols, base |-> BaseA])

\* a block of 1 x 1 tiles of base "a" (rows first..first+rows-1, may be
\* empty) and possibly one more 2 x 2 tile of any base and extension,
\* listed in a folder or passed to group_images
InitNames ==
    \E first \in 0..MaxStart, rows \in 0..NamesRows, cols \in 1..NamesCols,
       stray \in {<< >>} \cup { << b, r, e >> : b \in Bases, r \in 0..MaxStart, e \in Exts },
       rot \in 0..MaxRot, rev \in BOOLEAN :
        LET block == [k \in 1..(rows * cols) |->
                        Tile(BaseA, first + ((k - 1) \div cols), (k - 1) % cols,
                             Png, 1, 1, 2, 2, cols)]
            more  == IF stray = << >> THEN << >>
                     ELSE << Tile(stray[1], stray[2], 0, stray[3], 2, 2, 2, 2, cols) >>
            tiles == block \o more
            names == NamesOf(tiles)
            how   == [kind |-> "names", rows |-> 0, cols |-> 0, base |-> << >>]
        IN  /\ rot < Max(1, Len(tiles))
            /\ rows = 0 => (first = 0 /\ cols = 1)
            /\ \A j, k \in 1..Len(names) : names[j] = names[k] => j = k
            /\ \/ StartMain(tiles, Order(names, rot, rev), how)
               \/ \E ext \in Exts : StartCall(tiles, Order(names, rot, rev), ext, how)

SpecGrid == InitGrid /\ [][Next]_vars

SpecPad == InitPad /\ [][Next]_vars

SpecNames == InitNames /\ [][Next]_vars

(***************************************************************************)
(* Properties                                                              *)
(***************************************************************************)
\* merge has returned an image
MergeReturned == pc \in {"save", "saved", "returned"}

\* group_images has returned
Grouped == pc \in {"merge", "pad", "vstack", "save", "saved", "returned"}
             \/ (pc = "failed" /\ grouped_images # << >>)

\* every file of the folder has the size of every other
UniformTiles ==
    \A p, q \in DOMAIN disk :
        disk[p].width = disk[q].width /\ disk[p].height = disk[q].height

\* the folder holds a complete given.rows x given.cols grid of one base
CompleteGrid == given.kind \in {"grid", "pad"}

AnyTile == disk[CHOOSE p \in DOMAIN disk : TRUE]

\* every result of pad_image so far, with the position of its group
PaddedTiles ==
    UNION { { [g |-> g, t |-> padded_images[g][k]] : k \in 1..Len(padded_images[g]) } :
              g \in 1..Len(padded_images) }

\* the number of results of pad_image so far
RECURSIVE CountPadded(_)
CountPadded(groups) ==
    IF groups = << >> THEN 0 ELSE Len(groups[1]) + CountPadded(Tail(groups))

\* C1: a complete R x C grid of tiles of one size W x H is merged, never
\* fails, into an image C*W wide and R*H high, and pad_image gives every
\* tile zero padding on all four sides.
C1_UniformGridSize ==
    (CompleteGrid /\ UniformTiles) =>
        /\ pc # "failed"
        /\ \A e \in PaddedTiles :
               /\ e.t.pad_left = 0 /\ e.t.pad_right = 0
               /\ e.t.pad_top = 0 /\ e.t.pad_bottom = 0
        /\ MergeReturned =>
               /\ full_image.width = given.cols * AnyTile.width
               /\ full_image.height = given.rows * AnyTile.height
               /\ CountPadded(padded_images) = given.rows * given.cols

C1_Witness ==
    /\ pc = "saved" /\ given.kind = "grid"
    /\ given.rows = 3 /\ given.cols = 2
    /\ AnyTile.width = 2 /\ AnyTile.height = 1
    /\ full_image.width = 4 /\ full_image.height = 3

\* C2: the tiles of a complete R x C grid, listed in any order, are grouped
\* into exactly R groups of C tiles; group k holds the tiles of row k in
\* increasing numeric column order, and the groups are in row order.
C2_GridGrouping ==
    (given.kind = "grid" /\ pc \notin {"main", "group"}) =>
        /\ Len(grouped_images) = given.rows
        /\ \A k \in 1..given.rows :
               grouped_images[k] =
                   [c \in 1..given.cols |->
                       PathJoin(Dir, TileName(given.base, k - 1, c - 1, Png))]

C2_Witness ==
    /\ pc = "merge" /\ given.kind = "grid"
    /\ given.rows = 3 /\ given.cols = 11
    /\ listdir[1] # TileName(BaseA, 0, 0, Png)
    /\ grouped_images[3][10] = PathJoin(Dir, TileName(BaseA, 2, 9, Png))
    /\ grouped_images[3][11] = PathJoin(Dir, TileName(BaseA, 2, 10, Png))

\* C7: a source image split into a complete R x C grid of tiles of one size
\* is merged back, never failing, into an image that has the source's pixel
\* at every position.
C7_RoundTrip ==
    given.kind = "grid" =>
        /\ pc # "failed"
        /\ MergeReturned =>
               LET totalW == given.cols * AnyTile.width
                   totalH == given.rows * AnyTile.height
               IN  /\ full_image.width = totalW
                   /\ full_image.height = totalH
                   /\ Len(full_image.px) = totalH
                   /\ \A y \in 1..totalH :
                          /\ Len(full_image.px[y]) = totalW
                          /\ \A x \in 1..totalW :
                                 full_image.px[y][x] = SourcePixel(y - 1, x - 1, totalW)

C7_Witness ==
    /\ pc = "saved" /\ given.kind = "grid"
    /\ given.rows = 2 /\ given.cols = 3
    /\ AnyTile.width = 2 /\ AnyTile.height = 2
    /\ full_image.px[4][6] = SourcePixel(3, 5, 6)
    /\ full_image.px[3][1] = SourcePixel(2, 0, 6)

\* the file a result of pad_image was made from
SourceOf(t) == ImageOpen(disk, t.filename)

\* the targets pad_image read for the tile
TargetWidth(t) == max_widths[ImageCoordY(SourceOf(t)) + 1]

TargetHeight(t) == max_heights[ImageCoordY(SourceOf(t)) + 1]

\* p is split into (before, after): they add up to p, before is floor(p/2)
\* and the odd pixel is in after
SplitsEvenly(p, before, after) ==
    /\ before + after = p
    /\ 2 * before <= p /\ p <= 2 * before + 1
    /\ after - before \in {0, 1}

\* C4: pad_image splits every non-negative padding amount p = target - size
\* into left = floor(p/2) and right = p - left, and top and bottom likewise,
\* so that an odd pixel goes to the right / bottom.
C4_PaddingSplit ==
    \A e \in PaddedTiles :
        LET pw == TargetWidth(e.t) - SourceOf(e.t).width
            ph == TargetHeight(e.t) - SourceOf(e.t).height
        IN  /\ pw >= 0 => SplitsEvenly(pw, e.t.pad_left, e.t.pad_right)
            /\ ph >= 0 => SplitsEvenly(ph, e.t.pad_top, e.t.pad_bottom)

C4_Witness ==
    \E e \in PaddedTiles :
        /\ TargetWidth(e.t) - SourceOf(e.t).width = 3
        /\ e.t.pad_left = 1 /\ e.t.pad_right = 2
        /\ TargetHeight(e.t) - SourceOf(e.t).height = 3
        /\ e.t.pad_top = 1 /\ e.t.pad_bottom = 2

\* C5: when the targets are at least the tile's size, the result of
\* pad_image holds the tile's pixels unchanged in the rectangle of the tile's
\* size at offset (pad_left, pad_top), and black everywhere else.
C5_CropRestores ==
    \A e \in PaddedTiles :
        LET src == SourceOf(e.t)
            t   == e.t
        IN  (TargetWidth(t) >= src.width /\ TargetHeight(t) >= src.height) =>
                /\ t.height = TargetHeight(t) /\ t.width = TargetWidth(t)
                /\ \A y \in 1..src.height : \A x \in 1..src.width :
                       t.px[y + t.pad_top][x + t.pad_left] = src.px[y][x]
                /\ \A y \in 1..t.height : \A x \in 1..t.width :
                       ~( (y - t.pad_top) \in 1..src.height
                            /\ (x - t.pad_left) \in 1..src.width )
                           => t.px[y][x] = Black

C5_Witness ==
    \E e \in PaddedTiles :
        /\ SourceOf(e.t).width = 2 /\ SourceOf(e.t).height = 2
        /\ e.t.pad_left = 1 /\ e.t.pad_right = 2
        /\ e.t.pad_top = 1 /\ e.t.pad_bottom = 1
        /\ e.t.px[2][2] = SourceOf(e.t).px[1][1]
        /\ e.t.px[1][1] = Black

\* the total padded width of the groups padded so far
StripWidths == [g \in 1..Len(padded_images) |-> SumWidth(padded_images[g])]

MismatchedStrips ==
    \E j, k \in 1..Len(padded_images) : StripWidths[j] # StripWidths[k]

\* C6: when two row groups give row strips of different total padded width,
\* merge returns no image: it is still running or has ended in a failure.
C6_MismatchFails ==
    MismatchedStrips =>
        /\ full_image = NoImage
        /\ pc \in {"pad", "vstack", "failed"}

C6_Witness ==
    /\ pc = "failed"
    /\ row = Len(grouped_images)
    /\ Len(horizontal_parts) = 2
    /\ horizontal_parts[1].width # horizontal_parts[2].width
    /\ MismatchedStrips

\* the row coordinate in a tile's path
RowOf(path) == CoordY(path, image_ext)

\* the paths of all groups, in order
RECURSIVE Concat(_)
Concat(groups) == IF groups = << >> THEN << >> ELSE groups[1] \o Concat(Tail(groups))

\* the largest of a non-empty set of numbers
MaxOf(S) == CHOOSE m \in S : \A n \in S : n <= m

\* C3: every result of pad_image is as high as the highest tile with its row
\* coordinate and as wide as the widest tile of the row group (by position)
\* it belongs to.
C3_PaddedToRowAndGroupMax ==
    \A e \in PaddedTiles :
        LET y        == ImageCoordY(SourceOf(e.t))
            all      == Concat(grouped_images)
            sameRow  == { k \in 1..Len(all) : ImageCoordY(ImageOpen(disk, all[k])) = y }
            group    == grouped_images[e.g]
        IN  /\ e.t.height = MaxOf({ disk[all[k]].height : k \in sameRow })
            /\ e.t.width = MaxOf({ disk[group[k]].width : k \in 1..Len(group) })

\* the base name without its trailing _<row>_<col>.<ext>
WithoutTileSuffix(name) ==
    LET fields == SplitOn(name, "_")
        n      == Len(fields)
    IN  Sub(name, 1, Len(name) - (Len(fields[n - 1]) + Len(fields[n]) + 2))

\* C8: the image is saved under the first listed tile's name with its
\* trailing _<row>_<col>.<ext> removed, and nothing else, followed by
\* _merged.<ext>.
C8_OutputName ==
    pc = "saved" =>
        saved = PathJoin(OutDir,
                    WithoutTileSuffix(listdir[1]) \o Merged \o ExtOf(listdir[1]))

\* C9: group_images of an empty collection returns exactly one row group,
\* which is empty.
C9_EmptyInput ==
    (entry = "group_images" /\ all_images = << >> /\ pc # "group") =>
        grouped_images = << << >> >>

C9_Witness ==
    /\ entry = "group_images" /\ all_images = << >>
    /\ pc = "merge"
    /\ grouped_images = << << >> >>

\* all tiles end with the extension, and in natural-sorted order the tiles
\* of one row follow one another
ContiguousRows ==
    LET sorted == natsorted(all_images) IN
    /\ all_images # << >>
    /\ \A k \in 1..Len(sorted) : EndsWith(sorted[k], image_ext)
    /\ \A i, j, k \in 1..Len(sorted) :
           (i < j /\ j < k /\ RowOf(sorted[i]) = RowOf(sorted[k]))
               => RowOf(sorted[j]) = RowOf(sorted[i])

\* C10: for a non-empty tile-set with contiguous rows, whatever the first
\* row coordinate, group_images returns one group per row coordinate: no
\* group is empty, a group's tiles share one row coordinate, and the groups
\* in order are the natural-sorted input.
C10_OneGroupPerRow ==
    (Grouped /\ ContiguousRows) =>
        /\ Len(grouped_images) = Cardinality({ RowOf(all_images[k]) : k \in 1..Len(all_images) })
        /\ \A g \in 1..Len(grouped_images) :
               /\ grouped_images[g] # << >>
               /\ \A j, k \in 1..Len(grouped_images[g]) :
                      RowOf(grouped_images[g][j]) = RowOf(grouped_images[g][k])
        /\ Concat(grouped_images) = natsorted(all_images)
====
